---- MODULE Spec2Model ----
(***************************************************************************)
(* Gradient descent of gradient.py (minimize_batch, maximize_batch,        *)
(* minimize_stochastic, maximize_stochastic) with the helpers it calls in  *)
(* vector.py and validator.py; the vector functions of vector.py, the      *)
(* matrix functions of matrix.py and validator.py, and the normal          *)
(* probabilities of distributions.py, each called on its own.              *)
(*                                                                         *)
(* Numbers.  A Python float is modelled as a record [k, n, f]:             *)
(*   k = "fin"   a finite number, n + f/1000000 millionths (1e-6): n its   *)
(*               whole count of millionths, 0 <= f < 1000000 the rest in   *)
(*               millionths of a millionth (1e-12);                         *)
(*   k = "inf", "ninf", "nan"   the IEEE specials float('inf') yields;     *)
(*   k = "raise" is not a number: the call raised instead of returning;    *)
(*   k = "none" is Python's None.                                          *)
(* Coordinates of a Point and of a Gradient are plain integers, counts of  *)
(* millionths as well.  A product step_size * direction_i that falls off   *)
(* the grid of millionths is rounded toward zero; sums, differences and    *)
(* the squares of coordinates are exact.                                   *)
(***************************************************************************)
EXTENDS Integers, Sequences, FiniteSets, TLC

VARIABLES
    call,          \* which entry point of gradient.py the caller invoked
    target_fn,     \* argument target_fn (a member of a family, by name)
    gradient_fn,   \* argument gradient_fn (a member of a family, by name)
    theta_0,       \* argument theta_0
    tolerance,     \* argument tolerance (millionths)
    x, y,          \* arguments x and y of the stochastic entry points
    alpha_0,       \* argument alpha_0 (millionths)
    mb,            \* frame (locals) of the running minimize_batch
    ms,            \* frame (locals) of the running minimize_stochastic
    ref,           \* frame of the minimize_batch run a maximize_batch call is
                   \* set beside: the same arguments, target and gradient
                   \* negated by the caller
                   \* (for maximize_stochastic: the minimize_stochastic run)
    arg,           \* arguments of a call of vector.py, matrix.py,
                   \* validator.py or distributions.py, by parameter name
    out,           \* what that call returned or raised
    bis            \* frame (locals) of the running inverse_normal_cdf

args ==
    <<call, target_fn, gradient_fn, theta_0, tolerance, x, y, alpha_0, arg>>
vars == <<args, mb, ms, ref, out, bis>>

----------------------------------------------------------------------------
(* Bounds of the model *)

MaxIter == 3        \* iterations of the while loop that are explored
MaxDim == 2         \* length of theta_0 is 1..MaxDim
MaxData == 2        \* x and y hold at most this many examples
MaxSquaresIter == 45  \* iterations explored of the run on the sum of squares
MaxLen == 2         \* a vector, and a row of a matrix, has 0..MaxLen items
MaxRows == 2        \* a matrix has 0..MaxRows rows
MaxReach == 500     \* an endless run is followed while |theta_i| <= MaxReach
MaxHalvings == 6    \* halvings of hi_z - low_z = 20 that are exact

One == 1000 * 1000  \* 1.0 in millionths

----------------------------------------------------------------------------
(* Floats *)

Fin2(n, f) == [k |-> "fin", n |-> n, f |-> f]
Fin(n) == Fin2(n, 0)
Inf == [k |-> "inf", n |-> 0, f |-> 0]
NegInf == [k |-> "ninf", n |-> 0, f |-> 0]
NaN == [k |-> "nan", n |-> 0, f |-> 0]
Raise == [k |-> "raise", n |-> 0, f |-> 0]
None == [k |-> "none", n |-> 0, f |-> 0]

\* -a
FNeg(a) ==
    CASE a.k = "fin" ->
            IF a.f = 0 THEN Fin(0 - a.n) ELSE Fin2(0 - a.n - 1, One - a.f)
      [] a.k = "inf" -> NegInf
      [] a.k = "ninf" -> Inf
      [] OTHER -> a

\* a - b
FSub(a, b) ==
    CASE a.k = "nan" \/ b.k = "nan" -> NaN
      [] a.k = "fin" /\ b.k = "fin" ->
            IF a.f < b.f THEN Fin2(a.n - b.n - 1, a.f - b.f + One)
            ELSE Fin2(a.n - b.n, a.f - b.f)
      [] a.k = "fin" /\ b.k = "inf" -> NegInf
      [] a.k = "fin" /\ b.k = "ninf" -> Inf
      [] a.k = "inf" /\ b.k = "inf" -> NaN
      [] a.k = "ninf" /\ b.k = "ninf" -> NaN
      [] OTHER -> a

\* abs(a)
FAbs(a) ==
    CASE a.k = "fin" -> IF a.n < 0 THEN FNeg(a) ELSE a
      [] a.k = "ninf" -> Inf
      [] OTHER -> a

\* a < b; every comparison with nan is False
FLt(a, b) ==
    CASE a.k = "nan" \/ b.k = "nan" -> FALSE
      [] a.k = "fin" /\ b.k = "fin" ->
            a.n < b.n \/ (a.n = b.n /\ a.f < b.f)
      [] a.k = "ninf" -> b.k # "ninf"
      [] a.k = "inf" -> FALSE
      [] OTHER -> b.k = "inf"

\* a <= b
FLe(a, b) == FLt(a, b) \/ (a.k # "nan" /\ a = b)

----------------------------------------------------------------------------
(* Families the caller's functions are drawn from.  A function value is a  *)
(* record [id, wraps]: the named base function and the wrappers of         *)
(* gradient.py applied to it, innermost first.                             *)

RECURSIVE SumAbs(_)
SumAbs(v) ==
    IF v = <<>> THEN 0
    ELSE (IF Head(v) < 0 THEN 0 - Head(v) ELSE Head(v)) + SumAbs(Tail(v))

RECURSIVE Sum(_)
Sum(v) == IF v = <<>> THEN 0 ELSE Head(v) + Sum(Tail(v))

Sign(n) == IF n < 0 THEN 0 - 1 ELSE IF n > 0 THEN 1 ELSE 0

\* c * c for a coordinate c, exact to 1e-12.  From 31.0 on it is held at the
\* square of 31.0, the largest score the model holds for one coordinate.
CoordCeiling == 31 * One
Square(c) ==
    LET m == IF c < 0 THEN 0 - c ELSE c
        a == m \div 1000
        b == m % 1000
        ab == 2 * a * b
        low == (ab % 1000) * 1000 + b * b
    IN IF m >= CoordCeiling THEN Fin(31 * CoordCeiling)
       ELSE Fin2(a * a + (ab \div 1000) + (low \div One), low % One)

TargetIds ==
    {"abs", "neg_abs", "neg_sum", "zero", "raise_all", "sqrt_like", "wall",
     "nan_neg"}

\* a + b
FAdd(a, b) == IF b.k = "nan" THEN NaN ELSE FSub(a, FNeg(b))

\* sum(v_i ** 2 for v_i in v)
RECURSIVE SumSquares(_, _)
SumSquares(v, acc) ==
    IF v = <<>> THEN acc
    ELSE SumSquares(Tail(v), FAdd(acc, Square(Head(v))))

\* The caller's target function at Point v: a float, or Raise.
TargetBase(id, v) ==
    CASE id = "abs" -> Fin(SumAbs(v))
      [] id = "neg_abs" -> Fin(0 - SumAbs(v))
      [] id = "neg_sum" -> Fin(0 - Sum(v))
      [] id = "zero" -> Fin(0)
      [] id = "raise_all" -> Raise
      [] id = "sqrt_like" ->
            IF \E i \in 1..Len(v) : v[i] < 0 THEN Raise ELSE Fin(Sum(v))
      [] id = "wall" ->
            IF \E i \in 1..Len(v) : v[i] < 0 THEN Inf ELSE Fin(Sum(v))
      [] id = "nan_neg" ->
            IF \E i \in 1..Len(v) : v[i] < 0 THEN NaN ELSE Fin(Sum(v))
      [] id = "sum_of_squares" -> SumSquares(v, Fin(0))

GradientIds ==
    {"sign", "neg_sign", "ones", "neg_ones", "zeros", "fails_neg",
     "drops_last", "one_more"}

Vec(v) == [k |-> "vec", v |-> v]
RaiseVec == [k |-> "raise", v |-> <<>>]

\* sum_of_squares_gradient without its factor 2
gradient_without_factor(v) == v

\* sum_of_squares_gradient(v)
sum_of_squares_gradient(v) == [i \in 1..Len(v) |-> 2 * v[i]]

\* The caller's gradient function at Point v: a Gradient, or RaiseVec.
GradientBase(id, v) ==
    CASE id = "sign" -> Vec([i \in 1..Len(v) |-> One * Sign(v[i])])
      [] id = "neg_sign" -> Vec([i \in 1..Len(v) |-> 0 - One * Sign(v[i])])
      [] id = "ones" -> Vec([i \in 1..Len(v) |-> One])
      [] id = "neg_ones" -> Vec([i \in 1..Len(v) |-> 0 - One])
      [] id = "zeros" -> Vec([i \in 1..Len(v) |-> 0])
      [] id = "fails_neg" ->
            IF v # <<>> /\ v[1] < 0 THEN RaiseVec
            ELSE Vec([i \in 1..Len(v) |-> One])
      [] id = "drops_last" ->
            IF v = <<>> THEN Vec(<<>>)
            ELSE Vec([i \in 1..(Len(v) - 1) |-> One])
      [] id = "one_more" -> Vec([i \in 1..(Len(v) + 1) |-> One])
      [] id = "sum_of_squares_gradient" -> Vec(sum_of_squares_gradient(v))

Fn(id) == [id |-> id, wraps |-> <<>>]
Wrap(f, w) == [id |-> f.id, wraps |-> Append(f.wraps, w)]

----------------------------------------------------------------------------
(* gradient.py: safe, negate, negate_all *)

\* safe_f without its try/except: a plain call of f
safe_f_nocatch(r) == r

\* safe_f returning float('-inf') from its except branch
safe_f_neg_inf(r) == IF r.k = "raise" THEN NegInf ELSE r

\* safe_f given what f(*args, **kwargs) did: r is f's result, or Raise
safe_f(r) == IF r.k = "raise" THEN Inf ELSE r

\* the lambda of negate given what f did; -f(...) raises when f raises
negate_f(r) == IF r.k = "raise" THEN r ELSE FNeg(r)

\* the lambda of negate_all given what f did
negate_all_f(g) ==
    IF g.k = "raise" THEN g
    ELSE Vec([i \in 1..Len(g.v) |-> 0 - g.v[i]])

\* The caller's own -f and -g, which the runs of maximize_* are compared with
minus_f(r) == IF r.k = "raise" THEN r ELSE FNeg(r)
minus_all_f(g) ==
    IF g.k = "raise" THEN g
    ELSE Vec([i \in 1..Len(g.v) |-> 0 - g.v[i]])

safe(f) == Wrap(f, "safe")
negate(f) == Wrap(f, "negate")
negate_all(f) == Wrap(f, "negate_all")

RECURSIVE ApplyWraps(_, _)
ApplyWraps(r, wraps) ==
    IF wraps = <<>> THEN r
    ELSE ApplyWraps(CASE Head(wraps) = "safe" -> safe_f(r)
                      [] Head(wraps) = "negate" -> negate_f(r)
                      [] Head(wraps) = "negate_all" -> negate_all_f(r)
                      [] Head(wraps) = "minus" -> minus_f(r)
                      [] Head(wraps) = "minus_all" -> minus_all_f(r),
                    Tail(wraps))

\* f(v) for a target function value f
CallTarget(f, v) == ApplyWraps(TargetBase(f.id, v), f.wraps)

\* f(v) for a gradient function value f called through a wrapper that
\* returns the zero Gradient where f raises
CallGradientMasked(f, v) ==
    IF GradientBase(f.id, v).k = "raise" THEN Vec([i \in 1..Len(v) |-> 0])
    ELSE ApplyWraps(GradientBase(f.id, v), f.wraps)

\* f(v) for a gradient function value f
CallGradient(f, v) == ApplyWraps(GradientBase(f.id, v), f.wraps)

----------------------------------------------------------------------------
(* gradient.py: step, minimize_batch *)

\* A step size is the ratio num/den
step_sizes ==
    << [num |-> 100, den |-> 1], [num |-> 10, den |-> 1],
       [num |-> 1, den |-> 1], [num |-> 1, den |-> 10],
       [num |-> 1, den |-> 100], [num |-> 1, den |-> 1000],
       [num |-> 1, den |-> 10000], [num |-> 1, den |-> 100000] >>

\* -step_size
NegStepSize(s) == [num |-> 0 - s.num, den |-> s.den]

\* step_size * direction_i
Times(s, d) ==
    LET p == s.num * d
    IN IF p < 0 THEN 0 - ((0 - p) \div s.den) ELSE p \div s.den

Min2(a, b) == IF a < b THEN a ELSE b

\* step moving against step_size * direction
step_backwards(v, direction, step_size) ==
    [i \in 1..Min2(Len(v), Len(direction)) |->
        v[i] - Times(step_size, direction[i])]

\* zip(v, direction) stops at the shorter of the two
step(v, direction, step_size) ==
    [i \in 1..Min2(Len(v), Len(direction)) |->
        v[i] + Times(step_size, direction[i])]

next_thetas(theta, gradient) ==
    [j \in 1..Len(step_sizes) |->
        step(theta, gradient, NegStepSize(step_sizes[j]))]

\* min(items, key=...): the index of the first item whose key is below the
\* key of every item before it; keys are the keys of the items, in order
RECURSIVE MinFrom(_, _, _)
MinFrom(keys, j, best) ==
    IF j > Len(keys) THEN best
    ELSE MinFrom(keys, j + 1, IF FLt(keys[j], keys[best]) THEN j ELSE best)

\* min(...) keeping the last of the items with the least key
RECURSIVE MinFromTiesLast(_, _, _)
MinFromTiesLast(keys, j, best) ==
    IF j > Len(keys) THEN best
    ELSE MinFromTiesLast(keys, j + 1,
                         IF FLe(keys[j], keys[best]) THEN j ELSE best)

min_key_ties_last(keys) == MinFromTiesLast(keys, 2, 1)

\* min(...) taking the last candidate whatever its key
min_key_last(keys) == Len(keys)

min_key(keys) == MinFrom(keys, 2, 1)

\* the test written as abs(value - next_value) > tolerance
converged_above(value, next_value, tol) ==
    FLt(Fin(tol), FAbs(FSub(value, next_value)))

\* the test written as not abs(value - next_value) >= tolerance
converged_unless_at_least(value, next_value, tol) ==
    ~FLe(Fin(tol), FAbs(FSub(value, next_value)))

\* abs(value - next_value) < tolerance
converged(value, next_value, tol) ==
    FLt(FAbs(FSub(value, next_value)), Fin(tol))

\* return next_theta
returned_next(theta, next_theta) == next_theta

\* return theta
returned(theta, next_theta) == theta

IdleFrame ==
    [pc |-> "idle", err |-> "none", target_fn |-> Fn("zero"),
     gradient_fn |-> Fn("zeros"), tolerance |-> 0, theta |-> <<>>,
     value |-> None, next_theta |-> <<>>, next_value |-> None,
     iter |-> 0, result |-> <<>>]

\* minimize_batch up to the while loop.  An exception of a call ends the run
\* (pc = "raised", err the function that raised).
minimize_batch(t, g, th0, tol) ==
    LET safe_target == safe(t)
        val == CallTarget(safe_target, th0)
    IN [IdleFrame EXCEPT
          !.pc = IF val.k = "raise" THEN "raised" ELSE "loop",
          !.err = IF val.k = "raise" THEN "target_fn" ELSE "none",
          !.target_fn = safe_target, !.gradient_fn = g, !.tolerance = tol,
          !.theta = th0, !.value = val]

\* one iteration of the while loop of minimize_batch
minimize_batch_iterate(fr) ==
    LET gradient == CallGradient(fr.gradient_fn, fr.theta)
        cands == next_thetas(fr.theta, gradient.v)
        keys == [j \in 1..Len(cands) |-> CallTarget(fr.target_fn, cands[j])]
        next_theta == cands[min_key(keys)]
        next_value == CallTarget(fr.target_fn, next_theta)
    IN IF gradient.k = "raise"
       THEN [fr EXCEPT !.pc = "raised", !.err = "gradient_fn"]
       ELSE IF \E j \in 1..Len(keys) : keys[j].k = "raise"
       THEN [fr EXCEPT !.pc = "raised", !.err = "target_fn"]
       ELSE IF converged(fr.value, next_value, fr.tolerance)
       THEN [fr EXCEPT !.pc = "returned", !.next_theta = next_theta,
                       !.next_value = next_value,
                       !.result = returned(fr.theta, next_theta)]
       ELSE [fr EXCEPT !.theta = next_theta, !.value = next_value,
                       !.next_theta = next_theta,
                       !.next_value = next_value,
                       !.iter = fr.iter + 1]

\* maximize_batch passing gradient_fn on without negate_all
maximize_batch_plain_gradient(t, g, th0, tol) ==
    minimize_batch(negate(t), g, th0, tol)

\* maximize_batch
maximize_batch(t, g, th0, tol) ==
    minimize_batch(negate(t), negate_all(g), th0, tol)

----------------------------------------------------------------------------
(* gradient.py: partial_difference_quotient, estimate_gradient.            *)
(* h is a count of millionths that is a whole number of units or divides   *)
(* one unit, so that a quotient by h is exact to 1e-12.  The outcome of a  *)
(* call is a record [k, v, msg] with v = [gradient, calls, point]: what    *)
(* was returned, how many times f was called, and the list v afterwards.   *)

\* a / h for h # 0
FDiv(a, h) ==
    LET d == IF h < 0 THEN 0 - h ELSE h
        r == a.n % (d \div One)
        quotient ==
            IF d % One = 0
            THEN Fin2(a.n \div (d \div One), (r * One + a.f) \div (d \div One))
            ELSE Fin2(a.n * (One \div d) + (a.f * (One \div d)) \div One,
                      (a.f * (One \div d)) % One)
    IN CASE a.k = "fin" -> IF h < 0 THEN FNeg(quotient) ELSE quotient
         [] a.k = "inf" -> IF h < 0 THEN NegInf ELSE Inf
         [] a.k = "ninf" -> IF h < 0 THEN Inf ELSE NegInf
         [] OTHER -> a

Outcome(k, gradient, calls, point) ==
    [k |-> k, v |-> [gradient |-> gradient, calls |-> calls, point |-> point],
     msg |-> ""]

\* w with every coordinate moved by h
shifted(v, i, h) == [j \in 1..Len(v) |-> v[j] + h]

\* w = [v_j + (h if j == i else 0) for j, v_j in enumerate(v)]; the model
\* counts i and j from 1
perturbed(v, i, h) == [j \in 1..Len(v) |-> v[j] + (IF j = i THEN h ELSE 0)]

\* partial_difference_quotient(f, v, i, h): f(w) is called before f(v), and
\* the division comes last
partial_difference_quotient(f, v, i, h) ==
    LET w == perturbed(v, i, h)
        f_w == CallTarget(f, w)
        f_v == CallTarget(f, v)
    IN IF f_w.k = "raise" THEN Outcome("raise", <<>>, 1, v)
       ELSE IF f_v.k = "raise" THEN Outcome("raise", <<>>, 2, v)
       ELSE IF h = 0 THEN Outcome("ZeroDivisionError", <<>>, 2, v)
       ELSE Outcome("ok", <<FDiv(FSub(f_w, f_v), h)>>, 2, v)

\* the comprehension of estimate_gradient from index i on; acc is the
\* outcome so far
RECURSIVE estimate_from(_, _, _, _, _)
estimate_from(f, v, h, i, acc) ==
    IF i > Len(v) THEN acc
    ELSE LET q == partial_difference_quotient(f, v, i, h)
         IN IF q.k # "ok"
            THEN Outcome(q.k, <<>>, acc.v.calls + q.v.calls, q.v.point)
            ELSE estimate_from(f, v, h, i + 1,
                               Outcome("ok", acc.v.gradient \o q.v.gradient,
                                       acc.v.calls + q.v.calls, q.v.point))

\* estimate_gradient(f, v, h)
estimate_gradient(f, v, h) ==
    estimate_from(f, v, h, 1, Outcome("ok", <<>>, 0, v))

----------------------------------------------------------------------------
(* Python values, validator.py and vector.py.                              *)
(* A value is a record [t, n, v]: an int (n its value), a float (n its     *)
(* count of millionths), a str (n its code: the characters 'a'..'i' are    *)
(* the digits 1..9, '' is 0), or a list (v its items, values themselves).  *)
(* The outcome of a call is Ok(value) or an exception with its message.    *)

PyInt(n) == [t |-> "int", n |-> n, v |-> <<>>]
PyFloat(n) == [t |-> "float", n |-> n, v |-> <<>>]
PyStr(n) == [t |-> "str", n |-> n, v |-> <<>>]
PyList(v) == [t |-> "list", n |-> 0, v |-> v]

\* the list of floats of a Point or a Gradient, and back
Floats(v) == [i \in 1..Len(v) |-> PyFloat(v[i])]
Millionths(items) == [i \in 1..Len(items) |-> items[i].n]

Ok(v) == [k |-> "ok", v |-> v, msg |-> ""]
ErrMsg(e, m) == [k |-> e, v |-> <<>>, msg |-> m]
Err(e) == ErrMsg(e, "")

\* the outcome of an operator on two values that do not support it
Unsupported == [t |-> "TypeError", n |-> 0, v |-> <<>>]

IsNumber(a) == a.t \in {"int", "float"}

\* a number as a count of millionths
AsFloat(a) == IF a.t = "int" THEN a.n * One ELSE a.n

\* (a * b) of two counts of millionths, by thousands so that no
\* intermediate product leaves the range of the model's integers
MulMillionths(a, b) ==
    LET abs_a == IF a < 0 THEN 0 - a ELSE a
        abs_b == IF b < 0 THEN 0 - b ELSE b
        ah == abs_a \div 1000
        al == abs_a % 1000
        bh == abs_b \div 1000
        bl == abs_b % 1000
        m == ah * bh + ((ah * bl + al * bh + ((al * bl) \div 1000)) \div 1000)
    IN IF (a < 0) # (b < 0) THEN 0 - m ELSE m

\* number of characters of the str coded c
RECURSIVE StrLen(_)
StrLen(c) == IF c = 0 THEN 0 ELSE 1 + StrLen(c \div 10)

RECURSIVE Shift(_, _)
Shift(c, places) == IF places = 0 THEN c ELSE Shift(c * 10, places - 1)

\* a + b of two strs
Concat(a, b) == Shift(a, StrLen(b)) + b

\* s * k: s repeated k times
RECURSIVE Repeat(_, _)
Repeat(s, k) == IF k <= 0 THEN 0 ELSE Concat(Repeat(s, k - 1), s)

RECURSIVE RepeatItems(_, _)
RepeatItems(v, k) == IF k <= 0 THEN <<>> ELSE RepeatItems(v, k - 1) \o v

\* a + b
PyAdd(a, b) ==
    CASE a.t = "int" /\ b.t = "int" -> PyInt(a.n + b.n)
      [] IsNumber(a) /\ IsNumber(b) -> PyFloat(AsFloat(a) + AsFloat(b))
      [] a.t = "str" /\ b.t = "str" -> PyStr(Concat(a.n, b.n))
      [] a.t = "list" /\ b.t = "list" -> PyList(a.v \o b.v)
      [] OTHER -> Unsupported

\* a - b
PySub(a, b) ==
    CASE a.t = "int" /\ b.t = "int" -> PyInt(a.n - b.n)
      [] IsNumber(a) /\ IsNumber(b) -> PyFloat(AsFloat(a) - AsFloat(b))
      [] OTHER -> Unsupported

\* a * b
PyMul(a, b) ==
    CASE a.t = "int" /\ b.t = "int" -> PyInt(a.n * b.n)
      [] IsNumber(a) /\ IsNumber(b) ->
            PyFloat(MulMillionths(AsFloat(a), AsFloat(b)))
      [] a.t = "int" /\ b.t = "str" -> PyStr(Repeat(b.n, a.n))
      [] a.t = "str" /\ b.t = "int" -> PyStr(Repeat(a.n, b.n))
      [] a.t = "int" /\ b.t = "list" -> PyList(RepeatItems(b.v, a.n))
      [] a.t = "list" /\ b.t = "int" -> PyList(RepeatItems(a.v, b.n))
      [] OTHER -> Unsupported

\* the characters of the str coded c
RECURSIVE Chars(_)
Chars(c) == IF c = 0 THEN <<>> ELSE Append(Chars(c \div 10), PyStr(c % 10))

\* what iterating over a list or a str yields
Items(a) == IF a.t = "str" THEN Chars(a.n) ELSE a.v

\* is_vector(to_check): "True" or "False", or "TypeError" when to_check
\* cannot be iterated; the characters of a str are strs
is_vector(to_check) ==
    CASE to_check.t = "str" -> "True"
      [] to_check.t = "list" ->
            IF \A i \in 1..Len(to_check.v) :
                   to_check.v[i].t \in {"str", "int", "float"}
            THEN "True" ELSE "False"
      [] OTHER -> "TypeError"

\* not (valid.is_vector(v1) and valid.is_vector(v2)): "True", "False" or
\* "TypeError"; and evaluates is_vector(v2) only when is_vector(v1) is True
not_both_vectors(v1, v2) ==
    IF is_vector(v1) # "True"
    THEN (IF is_vector(v1) = "False" THEN "True" ELSE "TypeError")
    ELSE IF is_vector(v2) # "True"
    THEN (IF is_vector(v2) = "False" THEN "True" ELSE "TypeError")
    ELSE "False"

NotAVector == "One of the vectors passed is not a valid vector"
NotSameLength == "Vectors must be the same length"

\* the checks vector_add, vector_subtract and dot start with
vector_checks(v1, v2) ==
    IF not_both_vectors(v1, v2) = "TypeError" THEN Err("TypeError")
    ELSE IF not_both_vectors(v1, v2) = "True"
    THEN ErrMsg("IndexError", NotAVector)
    ELSE IF Len(Items(v1)) # Len(Items(v2))
    THEN ErrMsg("IndexError", NotSameLength)
    ELSE Ok(<<>>)

\* zip(x, y): an iterator, here the pairs it has yet to yield
RECURSIVE zip(_, _)
zip(a, b) ==
    IF a = <<>> \/ b = <<>> THEN <<>>
    ELSE <<(<<Head(a), Head(b)>>)>> \o zip(Tail(a), Tail(b))

\* a list comprehension over items: the list, or the TypeError of an item
Comprehension(items) ==
    IF \E i \in 1..Len(items) : items[i] = Unsupported
    THEN Err("TypeError") ELSE Ok(PyList(items))

\* vector_add with the length test dropped
vector_add_unchecked(v1, v2) ==
    LET pairs == zip(Items(v1), Items(v2))
    IN IF not_both_vectors(v1, v2) # "False" THEN vector_checks(v1, v2)
       ELSE Comprehension([i \in 1..Len(pairs) |->
                              PyAdd(pairs[i][1], pairs[i][2])])

\* vector_add(v1, v2)
vector_add(v1, v2) ==
    LET pairs == zip(Items(v1), Items(v2))
    IN IF vector_checks(v1, v2).k # "ok" THEN vector_checks(v1, v2)
       ELSE Comprehension([i \in 1..Len(pairs) |->
                              PyAdd(pairs[i][1], pairs[i][2])])

\* vector_subtract(v1, v2)
vector_subtract(v1, v2) ==
    LET pairs == zip(Items(v1), Items(v2))
    IN IF vector_checks(v1, v2).k # "ok" THEN vector_checks(v1, v2)
       ELSE Comprehension([i \in 1..Len(pairs) |->
                              PySub(pairs[i][1], pairs[i][2])])

\* sum(items): 0 + items[1] + ...
RECURSIVE PySum(_, _)
PySum(items, acc) ==
    IF acc = Unsupported THEN Err("TypeError")
    ELSE IF items = <<>> THEN Ok(acc)
    ELSE IF Head(items) = Unsupported THEN Err("TypeError")
    ELSE PySum(Tail(items), PyAdd(acc, Head(items)))

\* dot(v1, v2)
dot(v1, v2) ==
    LET pairs == zip(Items(v1), Items(v2))
    IN IF vector_checks(v1, v2).k # "ok" THEN vector_checks(v1, v2)
       ELSE PySum([i \in 1..Len(pairs) |-> PyMul(pairs[i][1], pairs[i][2])],
                  PyInt(0))

\* scalar_multiply(v, sc)
scalar_multiply(v, sc) ==
    IF is_vector(v) = "TypeError" THEN Err("TypeError")
    ELSE IF is_vector(v) = "False"
    THEN ErrMsg("IndexError", "The vector passed is not a valid vector")
    ELSE Comprehension([i \in 1..Len(Items(v)) |-> PyMul(Items(v)[i], sc)])

----------------------------------------------------------------------------
(* validator.py: is_matrix; matrix.py: shape, get_row, get_col *)

RowNotVector == "One of the rows in the matrix is not a valid vector."
UnequalColumns == "Each row must have the same number of columns."
OutOfRange == "list index out of range"

\* all(is_vector(i) for i in rows): stops at the first row that is not a
\* vector, or that cannot be iterated
RECURSIVE all_vectors(_)
all_vectors(rows) ==
    IF rows = <<>> THEN "True"
    ELSE IF is_vector(Head(rows)) # "True" THEN is_vector(Head(rows))
    ELSE all_vectors(Tail(rows))

\* is_matrix(to_check): the tuple (valid_matrix, collector)
is_matrix(to_check) ==
    LET rows == Items(to_check)
        row_problem ==
            IF all_vectors(rows) = "False" THEN <<RowNotVector>> ELSE <<>>
        num_cols == Len(Items(rows[1]))
        collector ==
            IF \E a \in 1..Len(rows) : Len(Items(rows[a])) # num_cols
            THEN Append(row_problem, UnequalColumns) ELSE row_problem
    IN IF to_check.t \notin {"list", "str"} THEN Err("TypeError")
       ELSE IF all_vectors(rows) = "TypeError" THEN Err("TypeError")
       ELSE IF rows = <<>> THEN ErrMsg("IndexError", OutOfRange)
       ELSE IF \E a \in 1..Len(rows) : rows[a].t \notin {"list", "str"}
       THEN Err("TypeError")
       ELSE Ok([valid_matrix |-> Len(collector) # 0,
                problems |-> collector])

\* " ".join(problems)
RECURSIVE Join(_)
Join(problems) ==
    IF problems = <<>> THEN ""
    ELSE IF Len(problems) = 1 THEN Head(problems)
    ELSE Head(problems) \o " " \o Join(Tail(problems))

\* the check shape, get_row and get_col start with: the IndexError raised,
\* or Ok
matrix_check(matrix) ==
    LET checked == is_matrix(matrix)
    IN IF checked.k # "ok" THEN checked
       ELSE IF ~checked.v.valid_matrix
       THEN ErrMsg("IndexError", Join(checked.v.problems))
       ELSE Ok(<<>>)

\* shape(matrix): the tuple (num_rows, num_cols)
shape(matrix) ==
    IF matrix_check(matrix).k # "ok" THEN matrix_check(matrix)
    ELSE Ok([num_rows |-> Len(Items(matrix)),
             num_cols |-> Len(Items(Items(matrix)[1]))])

\* a[i] for a list a and an int i
Subscript(a, i) ==
    LET n == Len(Items(a))
    IN IF i >= 0 /\ i < n THEN Ok(Items(a)[i + 1])
       ELSE IF i < 0 /\ i >= 0 - n THEN Ok(Items(a)[n + i + 1])
       ELSE ErrMsg("IndexError", OutOfRange)

RowsMessage(num_rows, i) ==
    "This matrix only has " \o ToString(num_rows) \o " rows but row "
        \o ToString(i) \o " was requested."

ColumnsMessage(num_cols, j) ==
    "This matrix only has " \o ToString(num_cols) \o " columns but column "
        \o ToString(j) \o " was requested."

\* get_row(matrix, i)
get_row(matrix, i) ==
    IF matrix_check(matrix).k # "ok" THEN matrix_check(matrix)
    ELSE IF shape(matrix).k # "ok" THEN shape(matrix)
    ELSE IF i > shape(matrix).v.num_rows
    THEN ErrMsg("IndexError", RowsMessage(shape(matrix).v.num_rows, i))
    ELSE Subscript(matrix, i)

\* [A_i[j] for A_i in rows]
RECURSIVE column_items(_, _, _)
column_items(rows, j, acc) ==
    IF rows = <<>> THEN Ok(PyList(acc))
    ELSE IF Subscript(Head(rows), j).k # "ok" THEN Subscript(Head(rows), j)
    ELSE column_items(Tail(rows), j, Append(acc, Subscript(Head(rows), j).v))

\* get_col(matrix, j)
get_col(matrix, j) ==
    IF matrix_check(matrix).k # "ok" THEN matrix_check(matrix)
    ELSE IF shape(matrix).k # "ok" THEN shape(matrix)
    ELSE IF j > shape(matrix).v.num_cols
    THEN ErrMsg("IndexError", ColumnsMessage(shape(matrix).v.num_cols, j))
    ELSE column_items(Items(matrix), j, <<>>)

----------------------------------------------------------------------------
(* distributions.py: normal_cdf, normal_probability_between and _outside.  *)
(* x, mu, lo and hi are whole numbers and sigma is 1 or 2, so that         *)
(* z = (x - mu) / sigma is a multiple of one half.                         *)

\* (1 + erf(z / sqrt(2))) / 2 in millionths at z = half / 2 >= 0
PhiOfHalves ==
    << 500000, 691462, 841345, 933193, 977250, 993790, 998650, 999767,
       999968, 999997 >>

Phi(half) ==
    LET m == IF half < 0 THEN 0 - half ELSE half
        p == IF m + 1 > Len(PhiOfHalves) THEN One ELSE PhiOfHalves[m + 1]
    IN IF half < 0 THEN One - p ELSE p

\* normal_cdf(x, mu, sigma), in millionths; x0 is its argument x
normal_cdf(x0, mu, sigma) ==
    IF sigma = 0 THEN Err("ZeroDivisionError")
    ELSE Ok(PyFloat(Phi((2 * (x0 - mu)) \div sigma)))

\* normal_probability_between(lo, hi, mu, sigma)
normal_probability_between(lo, hi, mu, sigma) ==
    IF normal_cdf(hi, mu, sigma).k # "ok" THEN normal_cdf(hi, mu, sigma)
    ELSE IF normal_cdf(lo, hi, sigma).k # "ok" THEN normal_cdf(lo, hi, sigma)
    ELSE Ok(PySub(normal_cdf(hi, mu, sigma).v, normal_cdf(lo, hi, sigma).v))

\* normal_probability_outside(lo, hi, mu, sigma)
normal_probability_outside(lo, hi, mu, sigma) ==
    LET between == normal_probability_between(lo, hi, mu, sigma)
    IN IF between.k # "ok" THEN between
       ELSE Ok(PySub(PyInt(1), between.v))

----------------------------------------------------------------------------
(* distributions.py: inverse_normal_cdf.                                   *)
(* low_z, hi_z and mid_z are counts of millionths held on a grid of        *)
(* spacing Ulp, as the floats of the code are held to 53 bits: the first   *)
(* MaxHalvings midpoints of [-10, 10] are on the grid, and a midpoint that *)
(* falls between two neighbours of the grid is rounded to the one that is  *)
(* an even multiple of Ulp (round half to even).  A probability is a       *)
(* float record [k, n, f] with n a count of 1e-9 and f the rest in 1e-18.  *)

Ulp == (20 * One) \div (2 ^ MaxHalvings)

\* spacing of the points NormalCdfTable lists, from -10.0 to 10.0
TableStep == (20 * One) \div 128

Billion == 1000 * One
Prob(n, f) == [k |-> "fin", n |-> n, f |-> f]

\* normal_cdf(z) = (1 + erf(z / sqrt(2))) / 2 at z = -10.0 + 0.15625 * k,
\* k = 0..128, as <<n, f>>
NormalCdfTable ==
    <<
     <<0, 0>>, <<0, 0>>, <<0, 0>>,
     <<0, 0>>, <<0, 0>>, <<0, 0>>,
     <<0, 0>>, <<0, 0>>, <<0, 0>>,
     <<0, 0>>, <<0, 0>>, <<0, 55>>,
     <<0, 222>>, <<0, 777>>, <<0, 2775>>,
     <<0, 9547>>, <<0, 31918>>, <<0, 103861>>,
     <<0, 329958>>, <<0, 1023459>>, <<0, 3099520>>,
     <<0, 9164502>>, <<0, 26456503>>, <<0, 74571182>>,
     <<0, 205226335>>, <<0, 551479306>>, <<1, 447005237>>,
     <<3, 707380291>>, <<9, 275398726>>, <<22, 661023557>>,
     <<54, 65713350>>, <<125, 972236142>>, <<286, 651571868>>,
     <<637, 56147001>>, <<1382, 813506423>>, <<2931, 784928494>>,
     <<6071, 623911307>>, <<12283, 23933856>>, <<24274, 973856708>>,
     <<46869, 765016444>>, <<88417, 285200814>>, <<162976, 300759010>>,
     <<293555, 359751951>>, <<516740, 483940014>>, <<889025, 299108447>>,
     <<1495068, 795349385>>, <<2457901, 175196675>>, <<3950750, 660776825>>,
     <<6209665, 325776159>>, <<9545481, 536386180>>, <<14353021, 608801641>>,
     <<21114820, 317715277>>, <<30396361, 765261392>>, <<42829951, 702417157>>,
     <<59085122, 932667599>>, <<79824950, 821405227>>, <<105649773, 666855295>>,
     <<137032319, 304911609>>, <<174250711, 880542419>>, <<217327735, 678085665>>,
     <<265985529, 48700541>>, <<319624171, 517117638>>, <<377330281, 529842936>>,
     <<437917983, 191705162>>, <<500000000, 0>>, <<562082016, 808294837>>,
     <<622669718, 470157063>>, <<680375828, 482882361>>, <<734014470, 951299458>>,
     <<782672264, 321914390>>, <<825749288, 119457580>>, <<862967680, 695088334>>,
     <<894350226, 333144648>>, <<920175049, 178594717>>, <<940914877, 67332344>>,
     <<957170048, 297582898>>, <<969603638, 234738607>>, <<978885179, 682284722>>,
     <<985646978, 391198302>>, <<990454518, 463613764>>, <<993790334, 674223840>>,
     <<996049249, 339223230>>, <<997542098, 824803380>>, <<998504931, 204650558>>,
     <<999110974, 700891496>>, <<999483259, 516059985>>, <<999706444, 640248048>>,
     <<999837023, 699240989>>, <<999911582, 714799185>>, <<999953130, 234983555>>,
     <<999975725, 26143291>>, <<999987716, 976066143>>, <<999993928, 376088692>>,
     <<999997068, 215071505>>, <<999998617, 186493632>>, <<999999362, 943853054>>,
     <<999999713, 348428187>>, <<999999874, 27763802>>, <<999999945, 934286649>>,
     <<999999977, 338976497>>, <<999999990, 724601328>>, <<999999996, 292619708>>,
     <<999999998, 552994817>>, <<999999999, 448520693>>, <<999999999, 794773719>>,
     <<999999999, 925428761>>, <<999999999, 973543496>>, <<999999999, 990835553>>,
     <<999999999, 996900479>>, <<999999999, 998976596>>, <<999999999, 999670041>>,
     <<999999999, 999896083>>, <<999999999, 999968025>>, <<999999999, 999990452>>,
     <<999999999, 999997224>>, <<999999999, 999999222>>, <<999999999, 999999777>>,
     <<1000000000, 0>>, <<1000000000, 0>>, <<1000000000, 0>>,
     <<1000000000, 0>>, <<1000000000, 0>>, <<1000000000, 0>>,
     <<1000000000, 0>>, <<1000000000, 0>>, <<1000000000, 0>>,
     <<1000000000, 0>>, <<1000000000, 0>>, <<1000000000, 0>>
    >>

\* normal_cdf(z) with mu = 0 and sigma = 1
normal_cdf_z(z) ==
    LET e == NormalCdfTable[(z + 10 * One) \div TableStep + 1]
    IN Prob(e[1], e[2])

\* (low_z + hi_z) / 2 on the grid
midpoint(low_z, hi_z) ==
    LET ticks == (low_z + hi_z) \div Ulp
        down == ticks \div 2
    IN IF ticks % 2 = 0 THEN down * Ulp
       ELSE IF down % 2 = 0 THEN down * Ulp
       ELSE (down + 1) * Ulp

\* the local mid_z before its first assignment, and holding z
Unbound == [k |-> "unbound", z |-> 0]
Z(z) == [k |-> "float", z |-> z]

IdleBisect ==
    [pc |-> "idle", p |-> Prob(0, 0), mu |-> 0, sigma |-> 1, tolerance |-> 0,
     low_z |-> 0, hi_z |-> 0, mid_z |-> Unbound, turn |-> 0,
     result |-> [k |-> "none", v |-> <<>>, msg |-> ""]]

\* inverse_normal_cdf up to its while loop.  With mu # 0 or sigma # 1 the
\* loop is that of the call inverse_normal_cdf(p, tolerance=tolerance) of
\* line 269, whose result the caller scales.
inverse_normal_cdf(p, mu, sigma, tol) ==
    [IdleBisect EXCEPT
       !.pc = "while", !.p = p, !.mu = mu, !.sigma = sigma,
       !.tolerance = tol, !.low_z = 0 - 10 * One, !.hi_z = 10 * One]

\* return mid_z, and mu + sigma * that in the caller of line 269
return_mid_z(fr) ==
    IF fr.mid_z.k = "unbound"
    THEN [fr EXCEPT !.pc = "raised", !.result = Err("UnboundLocalError")]
    ELSE [fr EXCEPT !.pc = "returned",
                    !.result =
                        Ok(PyFloat(fr.mu * One + fr.sigma * fr.mid_z.z))]

\* the loop test and, when it holds, one pass of the loop body; turn is the
\* parity of the number of passes so far
bisect(fr) ==
    LET mid_z == midpoint(fr.low_z, fr.hi_z)
        mid_p == normal_cdf_z(mid_z)
    IN IF ~(fr.hi_z - fr.low_z > fr.tolerance) THEN return_mid_z(fr)
       ELSE IF FLt(mid_p, fr.p)
       THEN [fr EXCEPT !.mid_z = Z(mid_z), !.low_z = mid_z,
                       !.turn = 1 - fr.turn]
       ELSE IF FLt(fr.p, mid_p)
       THEN [fr EXCEPT !.mid_z = Z(mid_z), !.hi_z = mid_z,
                       !.turn = 1 - fr.turn]
       ELSE return_mid_z([fr EXCEPT !.mid_z = Z(mid_z)])

----------------------------------------------------------------------------
(* gradient.py: in_random_order, minimize_stochastic *)

\* Per-example functions the caller passes: target_fn(x_i, y_i, theta) and
\* gradient_fn(x_i, y_i, theta).  x_i is a whole number, y_i and theta are
\* counts of millionths.
StochTargetIds == {"abs_err", "zero", "raise_all"}

Residual(x_i, y_i, theta) == x_i * theta[1] - y_i

StochTargetBase(id, x_i, y_i, theta) ==
    CASE id = "abs_err" ->
            Fin(IF Residual(x_i, y_i, theta) < 0
                THEN 0 - Residual(x_i, y_i, theta)
                ELSE Residual(x_i, y_i, theta))
      [] id = "zero" -> Fin(0)
      [] id = "raise_all" -> Raise

StochGradientIds == {"abs_err_grad", "ones", "fails"}

StochGradientBase(id, x_i, y_i, theta) ==
    CASE id = "abs_err_grad" ->
            Vec([i \in 1..Len(theta) |->
                   IF i = 1 THEN One * x_i * Sign(Residual(x_i, y_i, theta))
                   ELSE 0])
      [] id = "ones" -> Vec([i \in 1..Len(theta) |-> One])
      [] id = "fails" -> RaiseVec

CallTarget3(f, x_i, y_i, theta) ==
    ApplyWraps(StochTargetBase(f.id, x_i, y_i, theta), f.wraps)

CallGradient3(f, x_i, y_i, theta) ==
    ApplyWraps(StochGradientBase(f.id, x_i, y_i, theta), f.wraps)

\* The names gradient.py binds at module level: its one import and its defs.
\* A name a function reads without assigning it is looked up here.
ModuleGlobals ==
    [v |-> "module", difference_quotient |-> "function",
     partial_difference_quotient |-> "function",
     estimate_gradient |-> "function", step |-> "function",
     sum_of_squares_gradient |-> "function", safe |-> "function",
     minimize_batch |-> "function", negate |-> "function",
     negate_all |-> "function", maximize_batch |-> "function",
     in_random_order |-> "function", minimize_stochastic |-> "function",
     maximize_stochastic |-> "function"]

Bound(name) == name \in DOMAIN ModuleGlobals

\* in_random_order(data), run to its end on the iterator data.  enumerate
\* drains data into indexes; random is then looked up; data[i] subscripts
\* the zip object.  k is "ok" (items the pairs yielded) or the exception.
in_random_order(data) ==
    LET indexes == [i \in 1..Len(data) |-> i - 1]
    IN IF ~Bound("random") THEN Err("NameError")
       ELSE IF indexes # <<>> THEN Err("TypeError")
       ELSE Ok(<<>>)

\* sum(target_fn(x_i, y_i, theta) for x_i, y_i in data): drains data
RECURSIVE SumTargets(_, _, _, _)
SumTargets(f, data, theta, acc) ==
    IF data = <<>> THEN acc
    ELSE LET r == CallTarget3(f, Head(data)[1], Head(data)[2], theta)
         IN IF r.k = "raise" THEN Raise
            ELSE SumTargets(f, Tail(data), theta, FAdd(acc, r))

total_value(f, data, theta) ==
    [value |-> SumTargets(f, data, theta, Fin(0)), data |-> <<>>]

\* theta = v.vector_subtract(theta, v.scalar_multiply(alpha, gradient_i))
sgd_update(theta, alpha, gradient_i) ==
    LET scaled == scalar_multiply(PyFloat(alpha), PyList(Floats(gradient_i)))
        moved == vector_subtract(PyList(Floats(theta)), scaled.v)
    IN IF scaled.k # "ok" THEN scaled
       ELSE IF moved.k # "ok" THEN moved
       ELSE Ok(Millionths(moved.v.v))

NoPoint == [k |-> "none", v |-> <<>>]

IdleStoch ==
    [pc |-> "idle", err |-> "none", target_fn |-> Fn("zero"),
     gradient_fn |-> Fn("zeros"), data |-> <<>>, theta |-> <<>>,
     alpha |-> 0, alpha_0 |-> 0, min_theta |-> NoPoint, min_value |-> None,
     iterations_with_no_improvement |-> 0, value |-> None,
     visited |-> <<>>, iter |-> 0, result |-> NoPoint]

\* minimize_stochastic up to the while loop
minimize_stochastic(t, g, xs, ys, th0, a0) ==
    [IdleStoch EXCEPT
       !.pc = "while", !.target_fn = t, !.gradient_fn = g,
       !.data = zip(xs, ys), !.theta = th0, !.alpha = a0, !.alpha_0 = a0,
       !.min_theta = NoPoint, !.min_value = Inf,
       !.iterations_with_no_improvement = 0]

\* iterations_with_no_imporovement < 100: the name is read, never assigned,
\* in minimize_stochastic, so it is a module-level name
while_cond(fr) ==
    IF ~Bound("iterations_with_no_imporovement") THEN "NameError"
    ELSE IF ModuleGlobals["iterations_with_no_imporovement"] < 100
    THEN "True" ELSE "False"

\* if value < min_value: ... else: ...
compare_update(fr) ==
    IF FLt(fr.value, fr.min_value)
    THEN [fr EXCEPT !.min_theta = Vec(fr.theta), !.min_value = fr.value,
                    !.iterations_with_no_improvement = 0,
                    !.alpha = fr.alpha_0]
    ELSE [fr EXCEPT !.iterations_with_no_improvement =
                        fr.iterations_with_no_improvement + 1,
                    !.alpha = (fr.alpha * 9) \div 10]

\* the body of the for loop, for the items the generator yields
RECURSIVE inner_pass(_, _)
inner_pass(fr, items) ==
    IF items = <<>> THEN fr
    ELSE LET x_i == Head(items)[1]
             y_i == Head(items)[2]
             gradient_i == CallGradient3(fr.gradient_fn, x_i, y_i, fr.theta)
             upd == sgd_update(fr.theta, fr.alpha, gradient_i.v)
         IN IF gradient_i.k = "raise"
            THEN [fr EXCEPT !.pc = "raised", !.err = "gradient_fn"]
            ELSE IF upd.k # "ok"
            THEN [fr EXCEPT !.pc = "raised", !.err = upd.k]
            ELSE inner_pass([fr EXCEPT !.theta = upd.v,
                                       !.visited = Append(@, Head(items))],
                            Tail(items))

\* the loop test and, when it holds, one pass of the loop body; return
\* min_theta when it does not
minimize_stochastic_iterate(fr) ==
    LET c == while_cond(fr)
        tot == total_value(fr.target_fn, fr.data, fr.theta)
        fr1 == compare_update([fr EXCEPT !.value = tot.value,
                                         !.data = tot.data])
        gen == in_random_order(fr1.data)
    IN IF c = "NameError"
       THEN [fr EXCEPT !.pc = "raised", !.err = "NameError"]
       ELSE IF c = "False"
       THEN [fr EXCEPT !.pc = "returned", !.result = fr.min_theta]
       ELSE IF tot.value.k = "raise"
       THEN [fr EXCEPT !.pc = "raised", !.err = "target_fn",
                       !.data = tot.data]
       ELSE IF gen.k # "ok"
       THEN [fr1 EXCEPT !.pc = "raised", !.err = gen.k, !.data = <<>>]
       ELSE inner_pass([fr1 EXCEPT !.data = <<>>, !.visited = <<>>,
                                   !.iter = fr.iter + 1],
                       gen.v)

\* maximize_stochastic
maximize_stochastic(t, g, xs, ys, th0, a0) ==
    minimize_stochastic(negate(t), negate_all(g), xs, ys, th0, a0)

----------------------------------------------------------------------------
(* The caller *)

Coords == {0 - 7, 0, 3, 13}

RECURSIVE SeqsOf(_, _)
SeqsOf(S, n) ==
    IF n = 0 THEN {<<>>}
    ELSE {<<e>> \o t : e \in S, t \in SeqsOf(S, n - 1)}

Points == UNION {SeqsOf(Coords, n) : n \in 1..MaxDim}

Tolerances == {1, 5}

\* (x_i, y_i) examples; x and y are passed with equal lengths
Examples == {<<1, 0>>, <<1, 5>>, <<2, 5>>}
Datasets == UNION {SeqsOf(Examples, n) : n \in 0..MaxData}
Column(d, c) == [i \in 1..Len(d) |-> d[i][c]]

Alphas == {10000}

\* tolerance=0.000001, the default of minimize_batch
DefaultTolerance == 1

\* the run on f(v) = sum(v_i ** 2) from [10, 10]
SquaresStart == <<10 * One, 10 * One>>
SquaresRun == target_fn = "sum_of_squares"

\* iterations of the while loop of minimize_batch that are explored
IterLimit == IF SquaresRun THEN MaxSquaresIter ELSE MaxIter

BatchCalls == {"minimize_batch", "maximize_batch"}
StochasticCalls == {"minimize_stochastic", "maximize_stochastic"}

\* items of the vectors passed to vector.py
Elements ==
    {PyInt(2), PyFloat((3 * One) \div 2), PyStr(1), PyList(<<PyInt(1)>>)}
Vectors == {PyList(v) : v \in UNION {SeqsOf(Elements, n) : n \in 0..MaxLen}}

\* rows and matrices passed to validator.py and matrix.py
RowElements == {PyInt(1), PyList(<<PyInt(1)>>)}
Rows == {PyList(v) : v \in UNION {SeqsOf(RowElements, n) : n \in 0..MaxLen}}
Matrices == {PyList(m) : m \in UNION {SeqsOf(Rows, n) : n \in 0..MaxRows}}
RowIndexes == 0..(MaxRows + 1)
ColIndexes == 0..(MaxLen + 1)

\* arguments of estimate_gradient: f, v and h (0, 0.5, 1.0, 2.0, -1.0)
EstimatedIds == TargetIds \cup {"sum_of_squares"}
EstimatedPoints == Points \cup {<<>>}
Hs == {0, One \div 2, One, 2 * One, 0 - One}

\* arguments of inverse_normal_cdf: p (0, 0.5, 0.6, normal_cdf(Ulp), 1, 2,
\* -1 and NaN), (mu, sigma) and tolerance
Ps ==
    {Prob(0, 0), Prob(Billion \div 2, 0), Prob(6 * (Billion \div 10), 0),
     normal_cdf_z(Ulp), Prob(Billion, 0), Prob(2 * Billion, 0),
     Prob(0 - Billion, 0), NaN}
Moments == {<<0, 1>>, <<1, 1>>, <<0, 2>>}
BisectTolerances == {Ulp \div 2, Ulp, 4 * Ulp, 19 * One, 20 * One}

\* arguments of the normal probabilities
Thresholds == {0 - 1, 0, 1, 2}
Sigmas == {1, 2}

NoArg ==
    [v1 |-> PyList(<<>>), v2 |-> PyList(<<>>), matrix |-> PyList(<<>>),
     i |-> 0, j |-> 0, lo |-> 0, hi |-> 0, mu |-> 0, sigma |-> 1,
     f |-> "zero", v |-> <<>>, h |-> 0, p |-> Prob(0, 0), tolerance |-> 0]
NoResult == [k |-> "none", v |-> <<>>, msg |-> ""]

VectorCalls == {"vector_add", "vector_subtract", "dot"}
NormalCalls == {"normal_probability_between", "normal_probability_outside"}

\* no gradient descent is called
NoDescent ==
    /\ target_fn = "zero"
    /\ gradient_fn = "zeros"
    /\ theta_0 = <<>>
    /\ tolerance = 0
    /\ x = <<>>
    /\ y = <<>>
    /\ alpha_0 = 0

Init ==
    /\ \/ /\ call \in BatchCalls
          /\ target_fn \in TargetIds
          /\ gradient_fn \in GradientIds
          /\ tolerance \in Tolerances
          /\ theta_0 \in Points
          /\ x = <<>>
          /\ y = <<>>
          /\ alpha_0 = 0
          /\ arg = NoArg
       \/ /\ call = "minimize_batch"
          /\ target_fn = "sum_of_squares"
          /\ gradient_fn = "sum_of_squares_gradient"
          /\ tolerance = DefaultTolerance
          /\ theta_0 = SquaresStart
          /\ x = <<>>
          /\ y = <<>>
          /\ alpha_0 = 0
          /\ arg = NoArg
       \/ /\ call \in StochasticCalls
          /\ target_fn \in StochTargetIds
          /\ gradient_fn \in StochGradientIds
          /\ tolerance = 0
          /\ \E d \in Datasets : x = Column(d, 1) /\ y = Column(d, 2)
          /\ alpha_0 \in Alphas
          /\ theta_0 \in Points
          /\ arg = NoArg
       \/ /\ call \in VectorCalls
          /\ NoDescent
          /\ \E a \in Vectors, b \in Vectors :
                arg = [NoArg EXCEPT !.v1 = a, !.v2 = b]
       \/ /\ call \in {"is_matrix", "shape"}
          /\ NoDescent
          /\ \E m \in Matrices : arg = [NoArg EXCEPT !.matrix = m]
       \/ /\ call = "get_row"
          /\ NoDescent
          /\ \E m \in Matrices, n \in RowIndexes :
                arg = [NoArg EXCEPT !.matrix = m, !.i = n]
       \/ /\ call = "get_col"
          /\ NoDescent
          /\ \E m \in Matrices, n \in ColIndexes :
                arg = [NoArg EXCEPT !.matrix = m, !.j = n]
       \/ /\ call \in NormalCalls
          /\ NoDescent
          /\ \E a \in Thresholds, b \in Thresholds, c \in Thresholds,
                d \in Sigmas :
                arg = [NoArg EXCEPT !.lo = a, !.hi = b, !.mu = c, !.sigma = d]
       \/ /\ call = "estimate_gradient"
          /\ NoDescent
          /\ \E a \in EstimatedIds, b \in EstimatedPoints, c \in Hs :
                arg = [NoArg EXCEPT !.f = a, !.v = b, !.h = c]
       \/ /\ call = "inverse_normal_cdf"
          /\ NoDescent
          /\ \E a \in Ps, b \in Moments, c \in BisectTolerances :
                arg = [NoArg EXCEPT !.p = a, !.mu = b[1], !.sigma = b[2],
                                    !.tolerance = c]
    /\ mb = IdleFrame
    /\ ms = IdleStoch
    /\ ref = IdleFrame
    /\ out = NoResult
    /\ bis = IdleBisect

Call_minimize_batch ==
    /\ call = "minimize_batch"
    /\ mb.pc = "idle"
    /\ mb' = minimize_batch(Fn(target_fn), Fn(gradient_fn), theta_0, tolerance)
    /\ UNCHANGED <<args, bis, out, ms, ref>>

Call_maximize_batch ==
    /\ call = "maximize_batch"
    /\ mb.pc = "idle"
    /\ mb' = maximize_batch(Fn(target_fn), Fn(gradient_fn), theta_0, tolerance)
    /\ ref' = minimize_batch(Wrap(Fn(target_fn), "minus"),
                             Wrap(Fn(gradient_fn), "minus_all"),
                             theta_0, tolerance)
    /\ UNCHANGED <<args, bis, out, ms>>

\* one iteration of the loop; the run set beside it takes its iteration too
Iterate ==
    /\ mb.pc = "loop"
    /\ mb.iter < IterLimit
    /\ mb' = minimize_batch_iterate(mb)
    /\ ref' = IF ref.pc = "loop" THEN minimize_batch_iterate(ref) ELSE ref
    /\ UNCHANGED <<args, bis, out, ms>>

Call_minimize_stochastic ==
    /\ call = "minimize_stochastic"
    /\ ms.pc = "idle"
    /\ ms' = minimize_stochastic(Fn(target_fn), Fn(gradient_fn), x, y,
                                 theta_0, alpha_0)
    /\ UNCHANGED <<args, bis, out, mb, ref>>

Call_maximize_stochastic ==
    /\ call = "maximize_stochastic"
    /\ ms.pc = "idle"
    /\ ms' = maximize_stochastic(Fn(target_fn), Fn(gradient_fn), x, y,
                                 theta_0, alpha_0)
    /\ ref' = minimize_stochastic(Wrap(Fn(target_fn), "minus"),
                                  Wrap(Fn(gradient_fn), "minus_all"),
                                  x, y, theta_0, alpha_0)
    /\ UNCHANGED <<args, bis, out, mb>>

\* the loop test of minimize_stochastic with the pass of the body it allows
IterateStochastic ==
    /\ ms.pc = "while"
    /\ ms.iter < MaxIter
    /\ ms' = minimize_stochastic_iterate(ms)
    /\ ref' = IF ref.pc = "while" THEN minimize_stochastic_iterate(ref)
              ELSE ref
    /\ UNCHANGED <<args, bis, out, mb>>

Call_vector_add ==
    /\ call = "vector_add"
    /\ out = NoResult
    /\ out' = vector_add(arg.v1, arg.v2)
    /\ UNCHANGED <<args, bis, mb, ms, ref>>

Call_vector_subtract ==
    /\ call = "vector_subtract"
    /\ out = NoResult
    /\ out' = vector_subtract(arg.v1, arg.v2)
    /\ UNCHANGED <<args, bis, mb, ms, ref>>

Call_dot ==
    /\ call = "dot"
    /\ out = NoResult
    /\ out' = dot(arg.v1, arg.v2)
    /\ UNCHANGED <<args, bis, mb, ms, ref>>

Call_is_matrix ==
    /\ call = "is_matrix"
    /\ out = NoResult
    /\ out' = is_matrix(arg.matrix)
    /\ UNCHANGED <<args, bis, mb, ms, ref>>

Call_shape ==
    /\ call = "shape"
    /\ out = NoResult
    /\ out' = shape(arg.matrix)
    /\ UNCHANGED <<args, bis, mb, ms, ref>>

Call_get_row ==
    /\ call = "get_row"
    /\ out = NoResult
    /\ out' = get_row(arg.matrix, arg.i)
    /\ UNCHANGED <<args, bis, mb, ms, ref>>

Call_get_col ==
    /\ call = "get_col"
    /\ out = NoResult
    /\ out' = get_col(arg.matrix, arg.j)
    /\ UNCHANGED <<args, bis, mb, ms, ref>>

Call_normal_probability_between ==
    /\ call = "normal_probability_between"
    /\ out = NoResult
    /\ out' = normal_probability_between(arg.lo, arg.hi, arg.mu, arg.sigma)
    /\ UNCHANGED <<args, bis, mb, ms, ref>>

Call_normal_probability_outside ==
    /\ call = "normal_probability_outside"
    /\ out = NoResult
    /\ out' = normal_probability_outside(arg.lo, arg.hi, arg.mu, arg.sigma)
    /\ UNCHANGED <<args, bis, mb, ms, ref>>

Call_estimate_gradient ==
    /\ call = "estimate_gradient"
    /\ out = NoResult
    /\ out' = estimate_gradient(Fn(arg.f), arg.v, arg.h)
    /\ UNCHANGED <<args, bis, mb, ms, ref>>

Call_inverse_normal_cdf ==
    /\ call = "inverse_normal_cdf"
    /\ bis.pc = "idle"
    /\ bis' = inverse_normal_cdf(arg.p, arg.mu, arg.sigma, arg.tolerance)
    /\ UNCHANGED <<args, out, mb, ms, ref>>

\* the loop test of inverse_normal_cdf with the pass of the body it allows
Bisect ==
    /\ bis.pc = "while"
    /\ bis' = bisect(bis)
    /\ UNCHANGED <<args, out, mb, ms, ref>>

Next ==
    \/ Call_minimize_batch
    \/ Call_maximize_batch
    \/ Iterate
    \/ Call_minimize_stochastic
    \/ Call_maximize_stochastic
    \/ IterateStochastic
    \/ Call_vector_add
    \/ Call_vector_subtract
    \/ Call_dot
    \/ Call_is_matrix
    \/ Call_shape
    \/ Call_get_row
    \/ Call_get_col
    \/ Call_normal_probability_between
    \/ Call_normal_probability_outside
    \/ Call_estimate_gradient
    \/ Call_inverse_normal_cdf
    \/ Bisect

Spec == Init /\ [][Next]_vars

----------------------------------------------------------------------------
(* inverse_normal_cdf on its own.  A call that was made runs on, and a     *)
(* loop that is not left takes its next pass: weak fairness.               *)

InitBisect == Init /\ call = "inverse_normal_cdf"

NextBisect ==
    \/ Call_inverse_normal_cdf
    \/ Bisect

SpecBisect == InitBisect /\ [][NextBisect]_vars /\ WF_vars(NextBisect)

----------------------------------------------------------------------------
(* minimize_batch followed without a limit on the iterations whose         *)
(* candidates all score +infinity.  The while loop has no exit but its     *)
(* return, so an iteration that is possible is taken: weak fairness.       *)
(* iter is kept modulo MaxIter + 1 here.                                   *)

InReach(v) ==
    \A i \in 1..Len(v) :
        v[i] <= MaxReach * One /\ v[i] >= 0 - MaxReach * One

\* every candidate of the iteration that starts in the frame fr scores
\* +infinity
AllInfinite(fr) ==
    LET g == CallGradient(fr.gradient_fn, fr.theta)
        c == next_thetas(fr.theta, g.v)
    IN /\ g.k # "raise"
       /\ \A j \in 1..Len(c) : CallTarget(fr.target_fn, c[j]) = Inf

InitStall == Init /\ call = "minimize_batch" /\ ~SquaresRun

\* the loop is at an iteration that is followed
IterateForeverEnabled ==
    /\ mb.pc = "loop"
    /\ InReach(mb.theta)
    /\ mb.iter < MaxIter \/ AllInfinite(mb)

\* one iteration of the loop
IterateForever ==
    /\ IterateForeverEnabled
    /\ mb' = [minimize_batch_iterate(mb) EXCEPT
                 !.iter = (mb.iter + 1) % (MaxIter + 1)]
    /\ UNCHANGED <<args, bis, out, ms, ref>>

NextStall ==
    \/ Call_minimize_batch
    \/ IterateForever

\* weak fairness of IterateForever, which is enabled exactly where
\* IterateForeverEnabled holds and changes iter whenever it is taken
IterateForeverFair ==
    \/ []<>(~IterateForeverEnabled)
    \/ []<><<IterateForever>>_vars

SpecStall ==
    /\ InitStall
    /\ [][NextStall]_vars
    /\ WF_vars(Call_minimize_batch)
    /\ IterateForeverFair

----------------------------------------------------------------------------
(* Properties *)

\* the target function minimize_batch was called with, before safe wraps it
TargetArg ==
    IF call = "maximize_batch" THEN negate(Fn(target_fn)) ELSE Fn(target_fn)

\* what safe(f) is to return for the outcome r of f
SafeResult(r) == IF r.k = "raise" THEN Inf ELSE r

\* the safe-wrapped scores of the candidates of the iteration that starts
\* in the frame fr
CandidateScores(fr) ==
    LET g == CallGradient(fr.gradient_fn, fr.theta)
        c == next_thetas(fr.theta, g.v)
    IN [j \in 1..Len(c) |-> SafeResult(CallTarget(TargetArg, c[j]))]

\* the loop of minimize_batch replaces (theta, value) in this step
Accepts == mb.pc = "loop" /\ mb'.pc = "loop" /\ mb'.iter = mb.iter + 1

\* C1: minimize_batch returns only at an iteration where
\* |value - next_value| < tolerance, and what it returns is the theta held
\* before that iteration's step (the Point whose score is value), not
\* next_theta.
C1_ReturnsCurrentTheta ==
    mb.pc = "returned" =>
        /\ FLt(FAbs(FSub(mb.value, mb.next_value)), Fin(mb.tolerance))
        /\ mb.result = mb.theta
        /\ mb.value = SafeResult(CallTarget(TargetArg, mb.result))
        /\ (mb.next_theta # mb.theta => mb.result # mb.next_theta)

C1_Witness ==
    /\ mb.pc = "returned"
    /\ mb.iter >= 1
    /\ mb.next_theta # mb.theta

\* C2 as claimed: every accepted step has next_value <= value, for any
\* target function, gradient function and theta_0.
C2_ValueNeverIncreases ==
    [][Accepts => FLe(mb'.value, mb.value)]_vars

\* C2 amended: an accepted next_value is the score of one of the candidates
\* and is not within tolerance of value.  Where neither value nor a
\* candidate's score is NaN, it is the least of the candidates' safe-wrapped
\* scores; it is <= value whenever some candidate scores no higher than
\* value, and it is greater than value otherwise.
C2_AcceptedIsLeastCandidate ==
    [][Accepts =>
        LET scores == CandidateScores(mb)
            no_nan ==
                /\ mb.value.k # "nan"
                /\ \A j \in 1..Len(scores) : scores[j].k # "nan"
            some_no_worse ==
                \E j \in 1..Len(scores) : FLe(scores[j], mb.value)
        IN /\ \E j \in 1..Len(scores) : scores[j] = mb'.value
           /\ ~FLt(FAbs(FSub(mb.value, mb'.value)), Fin(mb.tolerance))
           /\ no_nan =>
                 /\ \A j \in 1..Len(scores) : ~FLt(scores[j], mb'.value)
                 /\ some_no_worse => FLe(mb'.value, mb.value)
                 /\ ~some_no_worse => FLt(mb.value, mb'.value)]_vars

\* an accepted step that raised the value above the value at theta_0
C2_Witness ==
    /\ mb.pc = "loop"
    /\ mb.iter = 1
    /\ FLt(SafeResult(CallTarget(TargetArg, theta_0)), mb.value)

\* C3: a failure of the target function, at theta_0 or at a candidate of any
\* iteration, never reaches the caller and never ends the search: the
\* failing point is scored +infinity and the loop goes on.
C3_TargetFailureNeverPropagates ==
    /\ mb.err # "target_fn"
    /\ mb.pc = "raised" => mb.err = "gradient_fn"
    /\ (mb.pc # "idle" /\ CallTarget(TargetArg, mb.theta).k = "raise")
           => mb.value = Inf
    /\ (mb.next_value # None
            /\ CallTarget(TargetArg, mb.next_theta).k = "raise")
           => mb.next_value = Inf

\* the target failed at theta_0 and at the candidate the loop went on with
C3_Witness ==
    /\ mb.pc = "loop"
    /\ mb.iter >= 1
    /\ CallTarget(TargetArg, theta_0).k = "raise"
    /\ CallTarget(TargetArg, mb.theta).k = "raise"

\* C4: safe(f) returns +infinity where f raises and f's own result where it
\* does not, and never raises itself; checked at every Point minimize_batch
\* scores through safe(target_fn).
C4_SafeContract ==
    mb.pc # "idle" =>
        /\ mb.value.k # "raise"
        /\ mb.value =
              (IF CallTarget(TargetArg, mb.theta).k = "raise" THEN Inf
               ELSE CallTarget(TargetArg, mb.theta))
        /\ mb.next_value # None =>
              mb.next_value =
                 (IF CallTarget(TargetArg, mb.next_theta).k = "raise"
                  THEN Inf
                  ELSE CallTarget(TargetArg, mb.next_theta))

\* safe has returned +infinity for a failing f and a float for another Point
C4_Witness ==
    /\ mb.pc # "idle"
    /\ CallTarget(TargetArg, mb.next_theta).k = "raise"
    /\ mb.next_value = Inf
    /\ CallTarget(TargetArg, theta_0).k = "fin"

StochasticEnded == ms.pc \in {"raised", "returned"}

\* the total of target_fn over all pairs of x and y at theta, as claimed
FullTotal(theta) == SumTargets(ms.target_fn, zip(x, y), theta, Fin(0))

\* C5: minimize_stochastic terminates by its loop test, when the counter of
\* iterations without improvement has reached 100, and returns the
\* best-so-far Point.
C5_ReturnsBestSoFar ==
    (StochasticEnded /\ ms.err \notin {"target_fn", "gradient_fn"}) =>
        /\ ms.pc = "returned"
        /\ ms.iterations_with_no_improvement = 100
        /\ ms.result = ms.min_theta

Count(sq, e) == Cardinality({i \in 1..Len(sq) : sq[i] = e})

IsPermutation(a, b) ==
    /\ Len(a) = Len(b)
    /\ \A i \in 1..Len(b) : Count(a, b[i]) = Count(b, b[i])

\* C7: the inner pass of an outer iteration visits every pair of x and y
\* exactly once, in some order: the generator that feeds the for loop of
\* the iteration starting here yields a permutation of zip(x, y).
C7_InnerPassVisitsEveryPair ==
    ms.pc = "while" =>
        LET tot == total_value(ms.target_fn, ms.data, ms.theta)
            gen == in_random_order(tot.data)
        IN \/ tot.value.k = "raise"
           \/ gen.k = "ok" /\ IsPermutation(gen.v, zip(x, y))

\* C8: the total compared with the best so far is the sum of target_fn over
\* all pairs at the current theta, in the first iteration and in the next:
\* both traversals of data give the full sum.
C8_TotalIsSumOverAllPairs ==
    ms.pc = "while" =>
        LET first == total_value(ms.target_fn, ms.data, ms.theta)
            later == total_value(ms.target_fn, first.data, ms.theta)
        IN /\ first.value = FullTotal(ms.theta)
           /\ later.value = FullTotal(ms.theta)

\* C9: for an example, the gradient is taken at the current theta and theta
\* becomes theta - alpha * gradient_i, coordinate by coordinate, without an
\* error when theta and gradient_i have equal length.
C9_UpdateIsThetaMinusAlphaGradient ==
    ms.pc = "while" =>
        \A i \in 1..Len(zip(x, y)) :
            LET g == CallGradient3(ms.gradient_fn, x[i], y[i], ms.theta)
                upd == sgd_update(ms.theta, ms.alpha, g.v)
            IN (g.k = "vec" /\ Len(g.v) = Len(ms.theta)) =>
                  /\ upd.k = "ok"
                  /\ upd.v = [j \in 1..Len(ms.theta) |->
                                ms.theta[j] - MulMillionths(ms.alpha, g.v[j])]

ZeroGradientAtStart ==
    LET g == CallGradient(mb.gradient_fn, theta_0)
    IN /\ g.k = "vec"
       /\ Len(g.v) = Len(theta_0)
       /\ \A i \in 1..Len(g.v) : g.v[i] = 0

\* the first pass through the loop of minimize_batch starts here
FirstCheck == mb.pc = "loop" /\ mb.iter = 0 /\ mb.theta = theta_0

\* C11 as claimed: with gradient_fn(theta_0) all zeros, so that every
\* candidate equals theta_0, minimize_batch returns theta_0 at the first
\* tolerance check, for any positive tolerance.
C11_ZeroGradientReturnsAtOnce ==
    [][(FirstCheck /\ ZeroGradientAtStart /\ tolerance > 0) =>
          (mb'.pc = "returned" /\ mb'.result = theta_0)]_vars

\* C11 amended: it does so when the safe-wrapped score of theta_0 is a finite
\* number.  When that score is +infinity, -infinity or NaN, value - next_value
\* is NaN, the check fails and the loop goes on from theta_0.
C11_FiniteStartReturnsAtOnce ==
    [][(FirstCheck /\ ZeroGradientAtStart /\ tolerance > 0) =>
          /\ mb.value.k = "fin" =>
                (mb'.pc = "returned" /\ mb'.result = theta_0
                    /\ mb'.iter = 0 /\ mb'.next_theta = theta_0)
          /\ mb.value.k # "fin" =>
                (mb'.pc = "loop" /\ mb'.theta = theta_0
                    /\ mb'.iter = 1)]_vars

\* returned at the first check from a theta_0 with a zero gradient
C11_Witness ==
    /\ mb.pc = "returned"
    /\ mb.iter = 0
    /\ ZeroGradientAtStart
    /\ mb.value.k = "fin"
    /\ mb.result = theta_0
    /\ Len(theta_0) = MaxDim

\* C12 as claimed: minimize_batch on f(v) = sum(v_i ** 2) with gradient
\* [2 * v_i], from theta_0 = [10, 10] with the default tolerance, terminates
\* and returns a Point within tolerance of [0, 0].
C12_ReturnsWithinToleranceOfOrigin ==
    SquaresRun =>
        /\ mb.pc # "raised"
        /\ mb.iter < MaxSquaresIter
        /\ mb.pc = "returned" =>
              \A i \in 1..Len(mb.result) :
                  /\ mb.result[i] < tolerance
                  /\ 0 - tolerance < mb.result[i]

\* C12 amended: the run terminates, after 41 accepted steps, and returns a
\* Point of two equal coordinates between 0.001 and 0.0011 (the candidate it
\* turned down is 0.8 times that Point): it is the last change of the value,
\* not the distance from [0, 0], that is within tolerance.
C12_ReturnsNearOrigin ==
    SquaresRun =>
        /\ mb.pc # "raised"
        /\ mb.iter <= 41
        /\ mb.pc # "idle" =>
              /\ Len(mb.theta) = 2
              /\ mb.theta[1] = mb.theta[2]
              /\ mb.theta[1] > 0
              /\ FLt(mb.value, Fin(31 * CoordCeiling))
        /\ mb.pc = "returned" =>
              /\ mb.iter = 41
              /\ mb.result = mb.theta
              /\ mb.result[1] > 1000
              /\ mb.result[1] < 1100
              /\ 5 * mb.next_theta[1] >= 4 * mb.theta[1] - 5
              /\ 5 * mb.next_theta[1] <= 4 * mb.theta[1] + 5
              /\ FLt(FAbs(FSub(mb.value, mb.next_value)), Fin(tolerance))

\* the run on the sum of squares has returned
C12_Witness ==
    /\ SquaresRun
    /\ theta_0 = SquaresStart
    /\ tolerance = DefaultTolerance
    /\ mb.pc = "returned"
    /\ mb.iter > MaxIter

\* r is the float s * g_i on the grid of millionths (rounded toward zero)
IsScaled(r, s, g_i) ==
    LET p == s.num * g_i
        q == r * s.den
    IN IF p >= 0 THEN q <= p /\ p - q < s.den
       ELSE q >= p /\ q - p < s.den

\* C13: for theta and g of equal length and every step size s of the menu,
\* step(theta, g, -s) is a Point of that length whose i-th coordinate is
\* theta_i - s * g_i; theta is left as it was, so the next_theta a returning
\* iteration holds is still a step from the theta it returns.
C13_StepIsThetaMinusScaledGradient ==
    mb.pc \in {"loop", "returned"} =>
        LET g == CallGradient(mb.gradient_fn, mb.theta)
        IN (g.k = "vec" /\ Len(g.v) = Len(mb.theta)) =>
              /\ \A j \in 1..Len(step_sizes) :
                    LET s == step_sizes[j]
                        r == step(mb.theta, g.v, NegStepSize(s))
                    IN /\ Len(r) = Len(mb.theta)
                       /\ DOMAIN r = 1..Len(mb.theta)
                       /\ \A i \in 1..Len(r) :
                             IsScaled(mb.theta[i] - r[i], s, g.v[i])
              /\ mb.pc = "returned" =>
                    \E j \in 1..Len(step_sizes) :
                        /\ mb.next_theta =
                              step(mb.theta, g.v, NegStepSize(step_sizes[j]))
                        /\ \A i \in 1..Len(mb.theta) :
                              IsScaled(mb.theta[i] - mb.next_theta[i],
                                       step_sizes[j], g.v[i])

\* a step along a non-zero gradient of theta's length
C13_Witness ==
    /\ mb.pc = "returned"
    /\ mb.iter >= 1
    /\ Len(mb.theta) = MaxDim
    /\ Len(mb.next_theta) = Len(mb.theta)
    /\ \A i \in 1..Len(mb.theta) : mb.next_theta[i] # mb.theta[i]

\* C14: in minimize_batch a Point and a Gradient always have the same length:
\* a gradient_fn whose Gradient differs in length from theta has an error
\* reported to the caller, and the search never goes on with a Point whose
\* length differs from theta_0's.
C14_PointAndGradientLengthsAgree ==
    /\ mb.pc # "idle" => Len(mb.theta) = Len(theta_0)
    /\ mb.next_value # None => Len(mb.next_theta) = Len(theta_0)
    /\ mb.pc = "returned" =>
          LET g == CallGradient(mb.gradient_fn, mb.theta)
          IN Len(g.v) = Len(mb.theta)

\* the two arguments are valid vectors: lists of ints, floats and strs
ValidVectors == is_vector(arg.v1) = "True" /\ is_vector(arg.v2) = "True"

\* every item of both arguments is a number
NumberVectors ==
    /\ \A i \in 1..Len(arg.v1.v) : arg.v1.v[i].t \in {"int", "float"}
    /\ \A i \in 1..Len(arg.v2.v) : arg.v2.v[i].t \in {"int", "float"}

\* some item of the arguments is a str
HasStr ==
    \/ \E i \in 1..Len(arg.v1.v) : arg.v1.v[i].t = "str"
    \/ \E i \in 1..Len(arg.v2.v) : arg.v2.v[i].t = "str"

\* sum of v1_i * v2_i over the first n items, in millionths
RECURSIVE SumOfProducts(_)
SumOfProducts(n) ==
    IF n = 0 THEN 0
    ELSE SumOfProducts(n - 1)
           + MulMillionths(AsFloat(arg.v1.v[n]), AsFloat(arg.v2.v[n]))

\* out is the elementwise result of the call on vectors of equal length
ElementwiseResult ==
    /\ out.k = "ok"
    /\ call = "vector_add" =>
          /\ out.v.t = "list"
          /\ Len(out.v.v) = Len(arg.v1.v)
          /\ \A i \in 1..Len(arg.v1.v) :
                /\ IsNumber(out.v.v[i])
                /\ AsFloat(out.v.v[i]) =
                      AsFloat(arg.v1.v[i]) + AsFloat(arg.v2.v[i])
    /\ call = "vector_subtract" =>
          /\ out.v.t = "list"
          /\ Len(out.v.v) = Len(arg.v1.v)
          /\ \A i \in 1..Len(arg.v1.v) :
                /\ IsNumber(out.v.v[i])
                /\ AsFloat(out.v.v[i]) =
                      AsFloat(arg.v1.v[i]) - AsFloat(arg.v2.v[i])
    /\ call = "dot" =>
          /\ IsNumber(out.v)
          /\ AsFloat(out.v) = SumOfProducts(Len(arg.v1.v))

\* C15 as claimed: for any two valid vectors, vector_add, vector_subtract and
\* dot raise IndexError 'Vectors must be the same length' when the lengths
\* differ and return the elementwise result (dot: the sum of products)
\* otherwise.
C15_EqualLengthOrIndexError ==
    (call \in VectorCalls /\ out # NoResult /\ ValidVectors) =>
        IF Len(arg.v1.v) # Len(arg.v2.v)
        THEN out = ErrMsg("IndexError", "Vectors must be the same length")
        ELSE /\ out.k = "ok"
             /\ NumberVectors => ElementwiseResult

\* C15 amended: for any two valid vectors the three functions raise that
\* IndexError when the lengths differ; for equal lengths they return the
\* elementwise result when every item is a number, and vector_subtract and
\* dot raise TypeError when an item is a str.  The arguments are only read.
C15_NumbersEqualLengthOrIndexError ==
    (call \in VectorCalls /\ out # NoResult /\ ValidVectors) =>
        IF Len(arg.v1.v) # Len(arg.v2.v)
        THEN out = ErrMsg("IndexError", "Vectors must be the same length")
        ELSE /\ NumberVectors => ElementwiseResult
             /\ (HasStr /\ call # "vector_add") => out.k = "TypeError"

\* dot has returned the sum of products of two vectors of numbers
C15_Witness ==
    /\ call = "dot"
    /\ ValidVectors
    /\ NumberVectors
    /\ Len(arg.v1.v) = MaxLen
    /\ Len(arg.v2.v) = MaxLen
    /\ arg.v1 # arg.v2
    /\ out.k = "ok"

\* the rows of the matrix argument
MatrixRows == arg.matrix.v

\* every row is a list of ints, floats and strs
RowsAreVectors ==
    \A a \in 1..Len(MatrixRows) :
        /\ MatrixRows[a].t = "list"
        /\ \A b \in 1..Len(MatrixRows[a].v) :
              MatrixRows[a].v[b].t \in {"int", "float", "str"}

\* all rows have the length of the first
RowsOfEqualLength ==
    \A a \in 1..Len(MatrixRows) :
        Len(MatrixRows[a].v) = Len(MatrixRows[1].v)

\* a non-empty matrix with valid rows of one length
ValidMatrix ==
    MatrixRows # <<>> /\ RowsAreVectors /\ RowsOfEqualLength

\* C16: for every non-empty list of rows, is_matrix returns (True, [])
\* exactly when every row is a valid vector and all rows have the same
\* length; otherwise it returns (False, problems), problems holding the
\* invalid-row message first and then the unequal-columns message, each when
\* its condition fails.
C16_IsMatrixTrueExactlyWhenValid ==
    (call = "is_matrix" /\ out # NoResult /\ MatrixRows # <<>>) =>
        /\ out.k = "ok"
        /\ out.v.valid_matrix = (RowsAreVectors /\ RowsOfEqualLength)
        /\ out.v.problems =
              (IF RowsAreVectors THEN <<>>
               ELSE <<"One of the rows in the matrix is not a valid vector.">>)
              \o (IF RowsOfEqualLength THEN <<>>
                  ELSE <<"Each row must have the same number of columns.">>)

\* C17: shape(matrix) returns (rows, cols) without raising for a valid
\* matrix, and raises IndexError 'Each row must have the same number of
\* columns.' for a matrix of valid rows of differing lengths.
C17_ShapeOfValidMatrix ==
    (call = "shape" /\ out # NoResult /\ MatrixRows # <<>>
        /\ RowsAreVectors) =>
        IF RowsOfEqualLength
        THEN out = Ok([num_rows |-> Len(MatrixRows),
                       num_cols |-> Len(MatrixRows[1].v)])
        ELSE out = ErrMsg("IndexError",
                          "Each row must have the same number of columns.")

\* C18: for a valid matrix of n rows and m columns, get_row(matrix, i)
\* returns row i for 0 <= i < n and raises IndexError 'This matrix only has
\* n rows but row i was requested.' for every i >= n; get_col(matrix, j)
\* returns column j for 0 <= j < m and raises the IndexError for columns for
\* every j >= m.
C18_RowOrColumnOrIndexError ==
    /\ (call = "get_row" /\ out # NoResult /\ ValidMatrix /\ arg.i >= 0) =>
          IF arg.i < Len(MatrixRows)
          THEN out = Ok(MatrixRows[arg.i + 1])
          ELSE out = ErrMsg("IndexError",
                            "This matrix only has "
                               \o ToString(Len(MatrixRows))
                               \o " rows but row " \o ToString(arg.i)
                               \o " was requested.")
    /\ (call = "get_col" /\ out # NoResult /\ ValidMatrix /\ arg.j >= 0) =>
          IF arg.j < Len(MatrixRows[1].v)
          THEN out = Ok(PyList([a \in 1..Len(MatrixRows) |->
                                   MatrixRows[a].v[arg.j + 1]]))
          ELSE out = ErrMsg("IndexError",
                            "This matrix only has "
                               \o ToString(Len(MatrixRows[1].v))
                               \o " columns but column " \o ToString(arg.j)
                               \o " was requested.")

\* normal_cdf(x, mu, sigma) of the distribution the call names, in millionths
CdfAt(x0) == Phi((2 * (x0 - arg.mu)) \div arg.sigma)

\* C19: normal_probability_between(lo, hi, mu, sigma) is
\* normal_cdf(hi, mu, sigma) - normal_cdf(lo, mu, sigma), and
\* normal_probability_outside(lo, hi, mu, sigma) is 1 minus that.
C19_BetweenIsDifferenceOfCdfs ==
    /\ (call = "normal_probability_between" /\ out # NoResult) =>
          out = Ok(PyFloat(CdfAt(arg.hi) - CdfAt(arg.lo)))
    /\ (call = "normal_probability_outside" /\ out # NoResult) =>
          out = Ok(PyFloat(One - (CdfAt(arg.hi) - CdfAt(arg.lo))))

\* the menu of step sizes as the claim lists it, in millionths
Menu ==
    << 100 * One, 10 * One, One, One \div 10, One \div 100, One \div 1000,
       One \div 10000, One \div 100000 >>

\* theta - s * gradient for the step size s, coordinate by coordinate
Candidate(theta, s, gradient) ==
    [i \in 1..Len(theta) |-> theta[i] - MulMillionths(s, gradient[i])]

\* an iteration of minimize_batch that selected a candidate is taken here
Selects ==
    /\ mb.pc = "loop"
    /\ mb'.pc \in {"loop", "returned"}
    /\ mb' # mb
    /\ Len(CallGradient(mb.gradient_fn, mb.theta).v) = Len(mb.theta)

\* the candidate of step size Menu[j] is the one selected in this step
Selected(j) ==
    LET g == CallGradient(mb.gradient_fn, mb.theta).v
        c == Candidate(mb.theta, Menu[j], g)
    IN /\ mb'.next_theta = c
       /\ mb'.next_value = SafeResult(CallTarget(TargetArg, c))

\* the safe-wrapped score of the candidate of step size Menu[j]
Score(j) ==
    SafeResult(CallTarget(TargetArg,
        Candidate(mb.theta, Menu[j],
                  CallGradient(mb.gradient_fn, mb.theta).v)))

\* C20 as claimed: each iteration of minimize_batch builds one candidate
\* theta - s * gradient for every step size s of the menu [100, 10, 1, 0.1,
\* 0.01, 0.001, 0.0001, 0.00001]; the candidate with the minimum safe-wrapped
\* score is selected, the earliest in menu order among those of equal
\* minimal score.
C20_SelectsEarliestMinimum ==
    [][Selects =>
        \E j \in 1..Len(Menu) :
            /\ Selected(j)
            /\ \A k \in 1..Len(Menu) : FLe(Score(j), Score(k))
            /\ \A k \in 1..(j - 1) : FLt(Score(j), Score(k))]_vars

\* C20 amended: it is so provided no candidate's score is NaN.  min compares
\* with <, and every comparison with NaN is False: when the score of the
\* first candidate (step size 100) is NaN that candidate is selected whatever
\* the others score, and a later candidate that scores NaN is never selected.
C20_SelectsEarliestMinimumUnlessNaN ==
    [][Selects =>
        /\ Len(step_sizes) = Len(Menu)
        /\ (\A k \in 1..Len(Menu) : Score(k).k # "nan") =>
              \E j \in 1..Len(Menu) :
                  /\ Selected(j)
                  /\ \A k \in 1..Len(Menu) : FLe(Score(j), Score(k))
                  /\ \A k \in 1..(j - 1) : FLt(Score(j), Score(k))
        /\ Score(1).k = "nan" => Selected(1)
        /\ Score(1).k # "nan" => mb'.next_value.k # "nan"]_vars

\* the first of several different candidates of equal least score was
\* selected by the iteration that returned
C20_Witness ==
    /\ mb.pc = "returned"
    /\ LET scores == CandidateScores(mb)
           c == next_thetas(mb.theta,
                            CallGradient(mb.gradient_fn, mb.theta).v)
       IN \E j \in 1..Len(c) :
             /\ mb.next_theta = c[j]
             /\ mb.next_value = scores[j]
             /\ \A k \in 1..Len(c) : FLe(scores[j], scores[k])
             /\ \E k \in (j + 1)..Len(c) :
                   scores[k] = scores[j] /\ c[k] # c[j]

\* every candidate of the iteration that starts in the frame fr has the
\* safe-wrapped score +infinity
EveryScoreInfinite(fr) ==
    /\ CallGradient(fr.gradient_fn, fr.theta).k # "raise"
    /\ \A j \in 1..Len(CandidateScores(fr)) : CandidateScores(fr)[j] = Inf

\* the situation persists: every iteration a run comes to has candidates
\* that all score +infinity (and is one of the iterations followed)
AllInfiniteForever ==
    [](mb.pc = "loop" => EveryScoreInfinite(mb) /\ InReach(mb.theta))

\* C21: in minimize_batch, when every candidate of an iteration scores
\* +infinity, the selection picks the first menu entry (step size 100), the
\* tolerance check does not end the loop, and the loop goes on with that
\* candidate and the value +infinity; if this persists the loop takes
\* iteration after iteration forever and never returns a Point or raises.
C21_AllInfiniteRunsForever ==
    /\ [][(mb.pc = "loop" /\ EveryScoreInfinite(mb) /\ mb' # mb) =>
            LET g == CallGradient(mb.gradient_fn, mb.theta).v
            IN /\ mb'.pc = "loop"
               /\ mb'.err = "none"
               /\ mb'.value = Inf
               /\ mb'.theta = mb'.next_theta
               /\ Len(g) = Len(mb.theta) =>
                     mb'.theta = Candidate(mb.theta, Menu[1], g)
               /\ mb'.theta =
                     step(mb.theta, g, NegStepSize(step_sizes[1]))]_vars
    /\ AllInfiniteForever =>
          /\ []<><<IterateForever>>_vars
          /\ [](mb.pc \notin {"returned", "raised"})

\* two iterations in a row had candidates that all score +infinity, the
\* second one compared +infinity with +infinity, and the next one has such
\* candidates again
C21_Witness ==
    /\ mb.pc = "loop"
    /\ mb.iter = 2
    /\ mb.value = Inf
    /\ SafeResult(CallTarget(TargetArg, theta_0)) = Inf
    /\ mb.theta # theta_0
    /\ EveryScoreInfinite(mb)

\* f of estimate_gradient at the Point c: a float, or Raise
F(c) == CallTarget(Fn(arg.f), c)

\* v with coordinate i increased by h
W(i) == [arg.v EXCEPT ![i] = @ + arg.h]

\* a call of estimate_gradient has ended
Estimated == call = "estimate_gradient" /\ out # NoResult

\* the Gradient, the number of calls of f and the list v are as claimed
EstimateAsClaimed ==
    /\ out.k = "ok"
    /\ Len(out.v.gradient) = Len(arg.v)
    /\ \A i \in 1..Len(arg.v) :
          out.v.gradient[i] = FDiv(FSub(F(W(i)), F(arg.v)), arg.h)
    /\ out.v.calls = 2 * Len(arg.v)
    /\ out.v.point = arg.v

\* C22 as claimed: estimate_gradient(f, v, h) returns a Gradient of length
\* len(v) whose i-th entry is (f(w_i) - f(v)) / h, where w_i equals v except
\* that coordinate i is increased by h; it calls f exactly 2*len(v) times
\* and leaves v unmodified.
C22_ReturnsQuotientsWithTwoCallsEach ==
    Estimated => EstimateAsClaimed

\* C22 amended: it is so when v is empty (no call of f, whatever h) and when
\* h is not 0 and f raises at none of v, w_1, ..., w_len(v).  Otherwise no
\* Gradient is returned and v is left unmodified: the error of f propagates
\* from its first failing call, call number 2*i - 1 at w_i or call number 2
\* at v, and with h = 0 and f not raising at v the first division raises
\* ZeroDivisionError after 2 calls of f.
C22_ReturnsQuotientsUnlessErrors ==
    Estimated =>
        LET n == Len(arg.v)
            fails == {i \in 1..n : F(W(i)).k = "raise"}
            first == CHOOSE i \in fails : \A k \in fails : i <= k
        IN /\ (n = 0 \/ (arg.h # 0 /\ fails = {} /\ F(arg.v).k # "raise"))
                 => EstimateAsClaimed
           /\ (n > 0 /\ 1 \in fails) =>
                 out = Outcome("raise", <<>>, 1, arg.v)
           /\ (n > 0 /\ 1 \notin fails /\ F(arg.v).k = "raise") =>
                 out = Outcome("raise", <<>>, 2, arg.v)
           /\ (n > 0 /\ 1 \notin fails /\ F(arg.v).k # "raise"
                  /\ arg.h = 0) =>
                 out = Outcome("ZeroDivisionError", <<>>, 2, arg.v)
           /\ (arg.h # 0 /\ fails # {} /\ F(arg.v).k # "raise") =>
                 out = Outcome("raise", <<>>, 2 * first - 1, arg.v)

\* a Gradient of two different finite entries was returned for a v of two
\* coordinates
C22_Witness ==
    /\ Estimated
    /\ out.k = "ok"
    /\ Len(arg.v) = 2
    /\ out.v.calls = 4
    /\ out.v.gradient[1].k = "fin"
    /\ out.v.gradient[2].k = "fin"
    /\ out.v.gradient[1] # out.v.gradient[2]
    /\ out.v.gradient[1] = FDiv(FSub(F(W(1)), F(arg.v)), arg.h)

\* the caller's gradient function raises at the theta of the frame fr
GradientRaises(fr) == GradientBase(fr.gradient_fn.id, fr.theta).k = "raise"

\* C23: in minimize_batch only the target function is wrapped by safe: an
\* error raised by gradient_fn at any iteration (also at a Point that was
\* accepted with score +infinity) is not masked and propagates to the
\* caller, ending the search without a result.
C23_GradientErrorPropagates ==
    /\ [][(mb.pc = "loop" /\ GradientRaises(mb) /\ mb' # mb) =>
            mb' = [mb EXCEPT !.pc = "raised", !.err = "gradient_fn"]]_vars
    /\ [][mb.pc = "raised" => mb' = mb]_vars
    /\ [](mb.pc # "idle" =>
            /\ mb.target_fn = safe(TargetArg)
            /\ \A n \in 1..Len(mb.gradient_fn.wraps) :
                  mb.gradient_fn.wraps[n] # "safe")
    /\ [](mb.pc = "raised" =>
            /\ GradientRaises(mb)
            /\ mb.err = "gradient_fn"
            /\ mb.result = <<>>)

\* gradient_fn raised at a Point that an earlier iteration accepted with the
\* score +infinity
C23_Witness ==
    /\ mb.pc = "raised"
    /\ mb.err = "gradient_fn"
    /\ mb.iter >= 1
    /\ mb.value = Inf
    /\ mb.theta # theta_0
    /\ GradientRaises(mb)

StandardCall ==
    /\ call = "inverse_normal_cdf"
    /\ arg.mu = 0
    /\ arg.sigma = 1
    /\ 0 < arg.tolerance
    /\ arg.tolerance < 20 * One

\* -10 <= low_z <= mid_z <= hi_z <= 10, mid_z once it is assigned
BisectOrdered ==
    /\ 0 - 10 * One <= bis.low_z
    /\ bis.low_z <= bis.hi_z
    /\ bis.hi_z <= 10 * One
    /\ bis.mid_z # Unbound =>
          bis.low_z <= bis.mid_z.z /\ bis.mid_z.z <= bis.hi_z

\* C25: for the standard normal case and any tolerance with
\* 0 < tolerance < 20, the bisection loop of inverse_normal_cdf terminates
\* for every probability p: every state satisfies
\* -10 <= low_z <= mid_z <= hi_z <= 10, each iteration that does not break
\* halves hi_z - low_z, and the returned value is the last midpoint, lying
\* within [-10, 10].
C25_BisectionTerminates ==
    /\ []((StandardCall /\ bis.pc # "idle") => BisectOrdered)
    /\ [][(StandardCall /\ bis.pc = "while" /\ bis'.pc = "while"
              /\ bis' # bis) =>
             2 * (bis'.hi_z - bis'.low_z) = bis.hi_z - bis.low_z]_vars
    /\ []((StandardCall /\ bis.pc # "idle") =>
             /\ bis.pc # "raised"
             /\ bis.pc = "returned" =>
                   /\ bis.mid_z # Unbound
                   /\ bis.result = Ok(PyFloat(bis.mid_z.z))
                   /\ 0 - 10 * One <= bis.mid_z.z
                   /\ bis.mid_z.z <= 10 * One)
    /\ StandardCall => <>(bis.pc = "returned")

====
